---- MODULE Spec2Model ----
(***************************************************************************)
(* Model of the ABAP scanner for SAP Note 2198647 (src/app/app.py).       *)
(*                                                                         *)
(* A unit's source text is a sequence of tokens.  A token is a string of  *)
(* characters of one class: word characters (\w), whitespace (\s) or      *)
(* other.  Adjacent word tokens form one longer word, as they do in the   *)
(* text; every keyword and catalog name is a token of its own, and no     *)
(* concatenation of two or more word tokens spells one.  Character        *)
(* offsets are sums of token lengths, so spans are the spans Python's re  *)
(* reports.                                                                *)
(***************************************************************************)
EXTENDS Integers, Sequences, FiniteSets, TLC

\* ------------------------------------------------------------ bounds
\* Longest unit text, in segments, of the single-unit requests.
MaxSegs == 4
\* Longest batch of units in one request.
MaxUnits == 2

\* ------------------------------------------------------------ Optional
None == <<>>
Some(x) == <<x>>

\* ------------------------------------------------------------ catalog
SQL_TABLES == [t \in {"VBUK", "VBUP"} |-> IF t = "VBUK" THEN "VBAK" ELSE "VBAP"]
SQL_FIELDS == {"VBTYP_EXT"}
DECL_FIELDS == [f \in {"VBTYP"} |-> "VBTYPL"]
DECL_FIELDS_OBS == {"VBTYP_EXT"}

\* ------------------------------------------------------------ characters
\* An 11-character run of blanks (a line break's indentation).
Indent == "           "
SpaceTokens == {" ", "\n", Indent}
OtherTokens == {"*", "."}
WordTokens ==
    {"SELECT", "select", "FROM", "from", "JOIN", "TYPE", "LIKE",
     "VBUK", "VBUP", "vbup", "T", "VBTYP", "VBTYP_EXT", "vbtyp_ext", "a"}

\* str.upper() of one token.
TokUpper(t) ==
    CASE t = "select" -> "SELECT"
      [] t = "from" -> "FROM"
      [] t = "vbup" -> "VBUP"
      [] t = "vbtyp_ext" -> "VBTYP_EXT"
      [] t = "a" -> "A"
      [] OTHER -> t

RECURSIVE upper(_)
\* str.upper() of a piece of text.
upper(toks) ==
    IF toks = <<>> THEN "" ELSE TokUpper(Head(toks)) \o upper(Tail(toks))

RECURSIVE CharLen(_)
\* len() of a piece of text, in characters.
CharLen(toks) ==
    IF toks = <<>> THEN 0 ELSE Len(Head(toks)) + CharLen(Tail(toks))

\* Character offset of the boundary after the first i tokens.
Off(code, i) == CharLen(SubSeq(code, 1, i))

\* Token i exists and is made of \w characters / of \s characters.
WordAt(code, i) == i \in 1..Len(code) /\ code[i] \in WordTokens
SpaceAt(code, i) == i \in 1..Len(code) /\ code[i] \in SpaceTokens

\* re.IGNORECASE match of the literal kw with token i, with \b on both sides.
KeywordAt(code, i, kw) ==
    /\ i \in 1..Len(code)
    /\ TokUpper(code[i]) = kw
    /\ ~WordAt(code, i - 1)
    /\ ~WordAt(code, i + 1)

Min(S) == CHOOSE m \in S : \A k \in S : m <= k

RECURSIVE SpaceEnd(_, _)
\* Greedy \s+ from boundary i: the boundary after the run of whitespace.
SpaceEnd(code, i) ==
    IF SpaceAt(code, i + 1) THEN SpaceEnd(code, i + 1) ELSE i

RECURSIVE WordEnd(_, _)
\* Greedy \w+ (or [A-Z0-9_]+ under IGNORECASE) from boundary i.
WordEnd(code, i) ==
    IF WordAt(code, i + 1) THEN WordEnd(code, i + 1) ELSE i

\* `\bKW\b\s+(\w+)` matches with KW at token i + 1, for some KW in kws.
KeywordIdAt(code, i, kws) ==
    /\ \E kw \in kws : KeywordAt(code, i + 1, kw)
    /\ SpaceAt(code, i + 2)
    /\ WordAt(code, SpaceEnd(code, i + 1) + 1)

\* The match of `\bKW\b\s+(\w+)` at boundary i: the identifier's tokens and
\* the match's token and character spans.
KeywordIdMatch(code, i) ==
    LET ts == SpaceEnd(code, i + 1)
        te == WordEnd(code, ts)
    IN  [from |-> i, to |-> te,
         id |-> SubSeq(code, ts + 1, te),
         span |-> <<Off(code, i), Off(code, te)>>]

\* ------------------------------------------------------------ regexes
\* `$` without re.MULTILINE: the end of the text, or just before a final newline.
Dollar(code, i) ==
    \/ i = Len(code)
    \/ i = Len(code) - 1 /\ code[Len(code)] = "\n"

\* The lookahead (?=(\bSELECT\b|$)) at boundary i.
BlockStop(code, i) == KeywordAt(code, i + 1, "SELECT") \/ Dollar(code, i)

\* Boundaries q at which `\bFROM\b\s+(?P<table>\w+)` matches, after a
\* nonempty (?P<select>.+?) that starts behind the SELECT at token p + 1.
FromAfter(code, p) ==
    {q \in (p + 2)..Len(code) : KeywordIdAt(code, q, {"FROM"})}

\* SQL_SELECT_BLOCK_RE matches at boundary p.
BlockAt(code, p) ==
    /\ KeywordAt(code, p + 1, "SELECT")
    /\ FromAfter(code, p) # {}

\* The match of SQL_SELECT_BLOCK_RE at boundary p: lazy select group, greedy
\* table, lazy rest up to the lookahead.
BlockMatch(code, p) ==
    LET q == Min(FromAfter(code, p))
        m == KeywordIdMatch(code, q)
        r == Min({i \in m.to..Len(code) : BlockStop(code, i)})
    IN  [from |-> p, to |-> r,
         table |-> m.id,
         rest_from |-> m.to,
         rest |-> SubSeq(code, m.to + 1, r),
         text |-> SubSeq(code, p + 1, r),
         span |-> <<Off(code, p), Off(code, r)>>]

\* SQL_SELECT_BLOCK_RE.finditer: start boundaries of matches at or after pos.
BlockStarts(code, pos) == {p \in pos..Len(code) : BlockAt(code, p)}

SQL_SELECT_BLOCK_RE(code, pos) == BlockMatch(code, Min(BlockStarts(code, pos)))

JoinStarts(text, pos) == {i \in pos..Len(text) : KeywordIdAt(text, i, {"JOIN"})}

RECURSIVE JOIN_RE(_, _)
\* JOIN_RE.finditer(text): the matches from boundary pos on, left to right,
\* each starting where the previous one ended.
JOIN_RE(text, pos) ==
    IF JoinStarts(text, pos) = {} THEN <<>>
    ELSE LET m == KeywordIdMatch(text, Min(JoinStarts(text, pos)))
         IN  <<m>> \o JOIN_RE(text, m.to)

DeclStarts(code, pos) ==
    {i \in pos..Len(code) : KeywordIdAt(code, i, {"TYPE", "LIKE"})}

\* DECLARATION_RE.finditer: the next match at or after pos.
DECLARATION_RE(code, pos) == KeywordIdMatch(code, Min(DeclStarts(code, pos)))

\* re.search(r"\bVBTYP_EXT\b", text, re.IGNORECASE) finds a match.
SearchSqlField(text) == \E i \in 1..Len(text) : KeywordAt(text, i, "VBTYP_EXT")

\* ------------------------------------------------------------ comments
comment_table(tbl) ==
    "* TODO: Table " \o TokUpper(tbl)
        \o " obsolete in S/4HANA (Note 2198647). Replace with "
        \o SQL_TABLES[tbl] \o "."

comment_decl_field(field) ==
    LET f == TokUpper(field)
    IN  IF f \in DECL_FIELDS_OBS
        THEN "* TODO: Field " \o f \o " obsolete (Note 2198647). Remove usage."
        ELSE IF f \in DOMAIN DECL_FIELDS
        THEN "* TODO: Data element " \o f
                 \o " was lengthened (Note 2198647). Use " \o DECL_FIELDS[f] \o "."
        ELSE ""

comment_sql_field(f) ==
    "* TODO: Field " \o f \o " obsolete (Note 2198647). Remove usage."

\* ------------------------------------------------------------ scan_sql
RECURSIVE Concat(_)
\* The text of a piece of text, as written.
Concat(toks) ==
    IF toks = <<>> THEN "" ELSE Head(toks) \o Concat(Tail(toks))

\* MainTableHits without the .upper() of line 51.
MainTableHits_NoUpper(stmt) ==
    LET table == Concat(stmt.table)
    IN  IF table \in DOMAIN SQL_TABLES
        THEN << [target_type |-> "TABLE", target_name |-> table, field |-> None,
                 span |-> stmt.span, used_fields |-> <<table>>,
                 suggested_fields |-> Some(<<SQL_TABLES[table]>>),
                 suggested_statement |-> comment_table(table)] >>
        ELSE <<>>

\* Lines 55-65: the hit for the main FROM table of one block.
MainTableHits(stmt) ==
    LET table == upper(stmt.table)
    IN  IF table \in DOMAIN SQL_TABLES
        THEN << [target_type |-> "TABLE", target_name |-> table, field |-> None,
                 span |-> stmt.span, used_fields |-> <<table>>,
                 suggested_fields |-> Some(<<SQL_TABLES[table]>>),
                 suggested_statement |-> comment_table(table)] >>
        ELSE <<>>

\* Lines 69-79: the hit of one JOIN_RE match jm in the block's rest_text.
JoinHit(jm) ==
    LET jtable == upper(jm.id)
    IN  IF jtable \in DOMAIN SQL_TABLES
        THEN << [target_type |-> "TABLE", target_name |-> jtable, field |-> None,
                 span |-> jm.span, used_fields |-> <<jtable>>,
                 suggested_fields |-> Some(<<SQL_TABLES[jtable]>>),
                 suggested_statement |-> comment_table(jtable)] >>
        ELSE <<>>

RECURSIVE JoinHitsOf(_)
JoinHitsOf(jms) ==
    IF jms = <<>> THEN <<>> ELSE JoinHit(Head(jms)) \o JoinHitsOf(Tail(jms))

\* Lines 67-79: the loop over JOIN_RE.finditer(rest_text).
JoinTableHits(stmt) == JoinHitsOf(JOIN_RE(stmt.rest, 0))

\* SqlFieldHits with re.finditer in place of re.search: a hit per occurrence.
SqlFieldHits_PerOccurrence(stmt) ==
    LET n == Cardinality({i \in 1..Len(stmt.text) :
                             KeywordAt(stmt.text, i, "VBTYP_EXT")})
    IN  [k \in 1..n |->
            [target_type |-> "SQL_FIELD", target_name |-> "VBTYP_EXT",
             field |-> Some("VBTYP_EXT"), span |-> stmt.span,
             used_fields |-> <<"VBTYP_EXT">>, suggested_fields |-> None,
             suggested_statement |-> comment_sql_field("VBTYP_EXT")]]

\* Lines 81-91: the SQL field hit of one block.
SqlFieldHits(stmt) ==
    IF SearchSqlField(stmt.text)
    THEN << [target_type |-> "SQL_FIELD", target_name |-> "VBTYP_EXT",
             field |-> Some("VBTYP_EXT"), span |-> stmt.span,
             used_fields |-> <<"VBTYP_EXT">>, suggested_fields |-> None,
             suggested_statement |-> comment_sql_field("VBTYP_EXT")] >>
    ELSE <<>>

\* Lines 51-91: one iteration of scan_sql's loop.
StmtHits(stmt) == MainTableHits(stmt) \o JoinTableHits(stmt) \o SqlFieldHits(stmt)

RECURSIVE Blocks(_, _)
\* SQL_SELECT_BLOCK_RE.finditer(code): the blocks from boundary pos on.
Blocks(code, pos) ==
    IF BlockStarts(code, pos) = {} THEN <<>>
    ELSE LET stmt == SQL_SELECT_BLOCK_RE(code, pos)
         IN  <<stmt>> \o Blocks(code, stmt.to)

RECURSIVE HitsOfBlocks(_)
HitsOfBlocks(stmts) ==
    IF stmts = <<>> THEN <<>>
    ELSE StmtHits(Head(stmts)) \o HitsOfBlocks(Tail(stmts))

\* Lines 48-92: the value scan_sql(code) returns.
scan_sql(code) == HitsOfBlocks(Blocks(code, 0))

\* ------------------------------------------------------------ scan_declarations
\* Lines 98-108: the hit of one DECLARATION_RE match.
DeclHits(m) ==
    LET fld == upper(m.id)
    IN  IF fld \in DOMAIN DECL_FIELDS \/ fld \in DECL_FIELDS_OBS
        THEN << [target_type |-> "DECLARATION", target_name |-> fld,
                 field |-> Some(fld), span |-> m.span, used_fields |-> <<fld>>,
                 suggested_fields |->
                     IF fld \in DOMAIN DECL_FIELDS
                     THEN Some(<<DECL_FIELDS[fld]>>) ELSE None,
                 suggested_statement |-> comment_decl_field(fld)] >>
        ELSE <<>>

RECURSIVE DeclMatches(_, _)
\* DECLARATION_RE.finditer(code): the matches from boundary pos on.
DeclMatches(code, pos) ==
    IF DeclStarts(code, pos) = {} THEN <<>>
    ELSE LET m == DECLARATION_RE(code, pos)
         IN  <<m>> \o DeclMatches(code, m.to)

RECURSIVE HitsOfDecls(_)
HitsOfDecls(ms) ==
    IF ms = <<>> THEN <<>> ELSE DeclHits(Head(ms)) \o HitsOfDecls(Tail(ms))

\* Lines 95-109: the value scan_declarations(code) returns.
scan_declarations(code) == HitsOfDecls(DeclMatches(code, 0))

\* ------------------------------------------------------------ assess
\* Lines 120: the dedup key of a hit.
Key(hit) == <<hit.target_type, hit.target_name, hit.span>>

\* Lines 124-135: the finding of a hit.
Finding(hit) ==
    [table |-> IF hit.target_type = "TABLE" THEN Some(hit.target_name) ELSE None,
     field |-> hit.field,
     target_type |-> hit.target_type,
     target_name |-> hit.target_name,
     start_char_in_unit |-> hit.span[1],
     end_char_in_unit |-> hit.span[2],
     used_fields |-> hit.used_fields,
     ambiguous |-> FALSE,
     suggested_fields |-> hit.suggested_fields,
     suggested_statement |-> hit.suggested_statement]

\* Line 136: json.loads(u.model_dump_json()) with the findings attached.
\* Strings and None survive the JSON round trip field by field.
Obj(u, fs) ==
    [pgm_name |-> u.pgm_name, inc_name |-> u.inc_name, type |-> u.type,
     name |-> u.name, code |-> u.code, selects |-> fs]

\* Line 116: u.code or "".
CodeOrEmpty(u) == IF u.code = None THEN <<>> ELSE u.code[1]

\* ------------------------------------------------------------ requests
RECURSIVE Flatten(_)
Flatten(segs) ==
    IF segs = <<>> THEN <<>> ELSE Head(segs) \o Flatten(Tail(segs))

\* The texts made of at most n segments of segs.
Texts(segs, n) ==
    {Flatten(s) : s \in UNION {[1..k -> segs] : k \in 0..n}}

\* Pieces of SQL-bearing units: a block on an obsolete table, a SELECT with no
\* FROM, JOIN clauses, the SQL field, a word character and a line end.
SqlSegments ==
    { <<" ", "select", " ", "*", " ", "from", " ", "vbup">>,
      <<" ", "SELECT", " ", "a">>,
      <<" ", "JOIN", " ", "VBUK">>,
      <<" ", "JOIN", Indent, "VBUP">>,
      <<" ", "VBTYP_EXT">>,
      <<"a">>,
      <<"\n">> }

\* Pieces of declaration-bearing units: declarations with the renamed and the
\* removed element, a bare keyword, names, and a block.
DeclSegments ==
    { <<" ", "TYPE", " ", "VBTYP">>,
      <<" ", "LIKE", " ", "vbtyp_ext">>,
      <<" ", "TYPE">>,
      <<" ", "T">>,
      <<"a">>,
      <<" ", "SELECT", " ", "VBTYP_EXT", " ", "FROM", " ", "VBUK", ".">> }

\* The source texts of the units of a batch.
BatchTexts ==
    { <<>>,
      <<"SELECT", " ", "*", " ", "FROM", " ", "VBUK">>,
      <<"SELECT", " ", "*", " ", "FROM", " ", "VBUP">>,
      <<"SELECT", " ", "VBTYP_EXT", " ", "FROM", " ", "VBUK", " ",
        "JOIN", " ", "VBUP", ".", "\n", "TYPE", " ", "VBTYP", ".">>,
      <<"SELECT", " ", "*", " ", "FROM", " ", "T", " ", "JOIN", " ", "VBUK", " ",
        "SELECT", " ", "*", " ", "FROM", " ", "T", " ", "JOIN", " ", "VBUK">>,
      <<"TYPE", " ", "VBTYP", ".", "\n", "LIKE", " ", "VBTYP_EXT", ".">> }

Unit(name, code) ==
    [pgm_name |-> "P1", inc_name |-> "I1", type |-> "FORM",
     name |-> name, code |-> code]

SingleUnits ==
    {Unit(None, Some(t)) :
        t \in Texts(SqlSegments, MaxSegs) \cup Texts(DeclSegments, MaxSegs)}

BatchUnits ==
    {Unit(n, c) : n \in {None, Some("F1")},
                  c \in {None} \cup {Some(t) : t \in BatchTexts}}

Requests ==
    {<<u>> : u \in SingleUnits}
        \cup UNION {[1..k -> BatchUnits] : k \in 0..MaxUnits}

\* ------------------------------------------------------------ state
VARIABLES
    units,          \* assess: the request's units
    ui,             \* assess: index of the unit u of the loop of line 115
    pc,             \* where the request is
    src,            \* assess: src of the current unit
    pos,            \* scan_sql / scan_declarations: where finditer resumes
    scan_results,   \* scan_sql / scan_declarations: the local results
    sql_hits,       \* assess: the value scan_sql(src) returned
    hits,           \* assess: scan_sql(src) + scan_declarations(src)
    hi,             \* assess: index of hit in the loop of line 119
    seen,           \* assess: seen
    findings,       \* assess: findings
    results         \* assess: results

vars ==
    <<units, ui, pc, src, pos, scan_results, sql_hits, hits, hi, seen,
      findings, results>>

Init ==
    /\ units \in Requests
    /\ ui = 1
    /\ pc = "for_u"
    /\ src = <<>>
    /\ pos = 0
    /\ scan_results = <<>>
    /\ sql_hits = <<>>
    /\ hits = <<>>
    /\ hi = 1
    /\ seen = {}
    /\ findings = <<>>
    /\ results = <<>>

\* AssessUnit with seen created once, before the loop over the units.
AssessUnit_SharedSeen ==
    /\ pc = "for_u"
    /\ ui <= Len(units)
    /\ src' = CodeOrEmpty(units[ui])
    /\ findings' = <<>>
    /\ pos' = 0
    /\ scan_results' = <<>>
    /\ pc' = "scan_sql"
    /\ UNCHANGED <<units, ui, sql_hits, hits, hi, seen, results>>

\* Lines 115-119: the next unit; src, findings and seen start afresh and
\* scan_sql(src) is entered.
AssessUnit ==
    /\ pc = "for_u"
    /\ ui <= Len(units)
    /\ src' = CodeOrEmpty(units[ui])
    /\ findings' = <<>>
    /\ seen' = {}
    /\ pos' = 0
    /\ scan_results' = <<>>
    /\ pc' = "scan_sql"
    /\ UNCHANGED <<units, ui, sql_hits, hits, hi, results>>

\* Lines 50-91: one block of scan_sql's loop.
ScanSqlStmt ==
    /\ pc = "scan_sql"
    /\ BlockStarts(src, pos) # {}
    /\ LET stmt == SQL_SELECT_BLOCK_RE(src, pos)
       IN  /\ scan_results' = scan_results \o StmtHits(stmt)
           /\ pos' = stmt.to
    /\ UNCHANGED <<units, ui, pc, src, sql_hits, hits, hi, seen, findings, results>>

\* Line 92: scan_sql returns; scan_declarations(src) is entered.
ScanSqlReturn ==
    /\ pc = "scan_sql"
    /\ BlockStarts(src, pos) = {}
    /\ sql_hits' = scan_results
    /\ scan_results' = <<>>
    /\ pos' = 0
    /\ pc' = "scan_declarations"
    /\ UNCHANGED <<units, ui, src, hits, hi, seen, findings, results>>

\* Lines 97-108: one match of scan_declarations' loop.
ScanDeclMatch ==
    /\ pc = "scan_declarations"
    /\ DeclStarts(src, pos) # {}
    /\ LET m == DECLARATION_RE(src, pos)
       IN  /\ scan_results' = scan_results \o DeclHits(m)
           /\ pos' = m.to
    /\ UNCHANGED <<units, ui, pc, src, sql_hits, hits, hi, seen, findings, results>>

\* ScanDeclReturn with the two lists joined the other way round.
ScanDeclReturn_DeclFirst ==
    /\ pc = "scan_declarations"
    /\ DeclStarts(src, pos) = {}
    /\ hits' = scan_results \o sql_hits
    /\ scan_results' = <<>>
    /\ hi' = 1
    /\ pc' = "for_hit"
    /\ UNCHANGED <<units, ui, src, pos, sql_hits, seen, findings, results>>

\* Lines 109 and 119: scan_declarations returns and the two lists are joined.
ScanDeclReturn ==
    /\ pc = "scan_declarations"
    /\ DeclStarts(src, pos) = {}
    /\ hits' = sql_hits \o scan_results
    /\ scan_results' = <<>>
    /\ hi' = 1
    /\ pc' = "for_hit"
    /\ UNCHANGED <<units, ui, src, pos, sql_hits, seen, findings, results>>

\* HitSeen without the `continue`: the hit becomes a finding all the same.
HitSeen_NoContinue ==
    /\ pc = "for_hit"
    /\ hi <= Len(hits)
    /\ Key(hits[hi]) \in seen
    /\ findings' = Append(findings, Finding(hits[hi]))
    /\ hi' = hi + 1
    /\ UNCHANGED <<units, ui, pc, src, pos, scan_results, sql_hits, hits, seen,
                   results>>

\* Lines 120-122: a hit whose key was seen is skipped.
HitSeen ==
    /\ pc = "for_hit"
    /\ hi <= Len(hits)
    /\ Key(hits[hi]) \in seen
    /\ hi' = hi + 1
    /\ UNCHANGED <<units, ui, pc, src, pos, scan_results, sql_hits, hits, seen,
                   findings, results>>

\* Lines 120-135: a hit with a new key becomes a finding.
HitNew ==
    /\ pc = "for_hit"
    /\ hi <= Len(hits)
    /\ Key(hits[hi]) \notin seen
    /\ seen' = seen \cup {Key(hits[hi])}
    /\ findings' = Append(findings, Finding(hits[hi]))
    /\ hi' = hi + 1
    /\ UNCHANGED <<units, ui, pc, src, pos, scan_results, sql_hits, hits, results>>

\* Lines 136-137: the unit's record is appended to results.
AppendResult ==
    /\ pc = "for_hit"
    /\ hi > Len(hits)
    /\ results' = Append(results, Obj(units[ui], findings))
    /\ ui' = ui + 1
    /\ pc' = "for_u"
    /\ UNCHANGED <<units, src, pos, scan_results, sql_hits, hits, hi, seen, findings>>

\* Line 138: assess returns results.
AssessReturn ==
    /\ pc = "for_u"
    /\ ui > Len(units)
    /\ pc' = "done"
    /\ UNCHANGED <<units, ui, src, pos, scan_results, sql_hits, hits, hi, seen,
                   findings, results>>

Next ==
    \/ AssessUnit
    \/ ScanSqlStmt
    \/ ScanSqlReturn
    \/ ScanDeclMatch
    \/ ScanDeclReturn
    \/ HitSeen
    \/ HitNew
    \/ AppendResult
    \/ AssessReturn

Spec == Init /\ [][Next]_vars

\* ------------------------------------------------------------ vocabulary of the claims
SpanOf(f) == <<f.start_char_in_unit, f.end_char_in_unit>>

\* The loop of line 119 has run to its end: findings is the unit's finding list.
DedupDone == pc = "for_hit" /\ hi > Len(hits)

\* The blocks of the current unit, as a set.
SrcBlocks == LET bs == Blocks(src, 0) IN {bs[i] : i \in DOMAIN bs}

\* The JOIN clauses scan_sql finds in block b's trailing region.
JoinsOf(b) == LET js == JOIN_RE(b.rest, 0) IN {js[i] : i \in DOMAIN js}

Obsolete(toks) == upper(toks) \in DOMAIN SQL_TABLES

\* Where the JOIN clause jm of block b lies in the unit's text.
JoinSpanInUnit(b, jm) ==
    <<Off(src, b.rest_from + jm.from), Off(src, b.rest_from + jm.to)>>

\* f is the finding of the FROM table of some block.
IsMainFinding(f) ==
    /\ f.target_type = "TABLE"
    /\ \E b \in SrcBlocks : SpanOf(f) = b.span /\ f.target_name = upper(b.table)

\* f reports the JOIN clause jm of block b where it stands in the unit.
IsJoinFindingAt(f, b, jm) ==
    /\ f.target_type = "TABLE"
    /\ f.target_name = upper(jm.id)
    /\ SpanOf(f) = JoinSpanInUnit(b, jm)

\* C1: every finding's span is a half-open interval of offsets into the unit's
\* own text, and a TABLE finding spans either a whole block whose FROM table it
\* names or the `JOIN <table>` clause it names, where that clause stands in the
\* unit's text.
C1_SpansAreUnitOffsets ==
    \A i \in DOMAIN findings :
        LET f == findings[i]
        IN  /\ 0 <= f.start_char_in_unit
            /\ f.start_char_in_unit <= f.end_char_in_unit
            /\ f.end_char_in_unit <= CharLen(src)
            /\ f.target_type = "TABLE" =>
                   \/ IsMainFinding(f)
                   \/ \E b \in SrcBlocks : \E jm \in JoinsOf(b) :
                          IsJoinFindingAt(f, b, jm)

\* C3: when a block of the unit has a `JOIN <obsolete-table>` clause in its
\* trailing region, the finding list holds a TABLE finding for that clause, and
\* its span differs from the span of every main-table finding of the list.
C3_JoinFindingDistinctFromMain ==
    DedupDone =>
        \A b \in SrcBlocks : \A jm \in JoinsOf(b) :
            Obsolete(jm.id) =>
                \E i \in DOMAIN findings :
                    /\ findings[i].target_type = "TABLE"
                    /\ findings[i].target_name = upper(jm.id)
                    /\ ~IsMainFinding(findings[i])
                    /\ \A k \in DOMAIN findings :
                           IsMainFinding(findings[k]) =>
                               SpanOf(findings[k]) # SpanOf(findings[i])

\* C9: no block's span holds a SELECT keyword other than the one it starts
\* with (so a SELECT with no FROM before the next SELECT is covered by no block).
C9_OneSelectPerBlock ==
    \A b \in SrcBlocks :
        \A i \in (b.from + 2)..b.to : ~KeywordAt(src, i, "SELECT")

RECURSIVE SumOver(_, _)
SumOver(S, f) ==
    IF S = {} THEN 0
    ELSE LET x == CHOOSE x \in S : TRUE IN f[x] + SumOver(S \ {x}, f)

\* The number of `JOIN <obsolete-table>` clauses scan_sql finds in the
\* trailing regions of the unit's blocks.
ObsoleteJoinCount ==
    SumOver(SrcBlocks,
            [b \in SrcBlocks |-> Cardinality({jm \in JoinsOf(b) : Obsolete(jm.id)})])

\* C10: the number of JOIN-derived TABLE findings of a unit equals the number
\* of `JOIN <obsolete-table>` clauses in the trailing regions of its blocks.
C10_OneFindingPerJoin ==
    DedupDone =>
        Cardinality({i \in DOMAIN findings :
                        /\ findings[i].target_type = "TABLE"
                        /\ ~IsMainFinding(findings[i])})
            = ObsoleteJoinCount

RECURSIVE FirstSeen(_, _)
\* Of the first n hits of hs, those whose key no earlier hit has, in order.
FirstSeen(hs, n) ==
    IF n = 0 THEN <<>>
    ELSE IF \E j \in 1..(n - 1) : Key(hs[j]) = Key(hs[n])
         THEN FirstSeen(hs, n - 1)
         ELSE Append(FirstSeen(hs, n - 1), hs[n])

Triple(f) == <<f.target_type, f.target_name, SpanOf(f)>>

\* C7: no two findings of a unit share (target_type, target_name, (start, end));
\* of hits with the same triple the first in scan order is the one kept, at the
\* place of that first occurrence.
C7_FirstOccurrenceKept ==
    pc = "for_hit" =>
        /\ \A i, k \in DOMAIN findings :
               Triple(findings[i]) = Triple(findings[k]) => i = k
        /\ LET kept == FirstSeen(hits, hi - 1)
           IN  findings = [i \in DOMAIN kept |-> Finding(kept[i])]

\* C7's case: the raw hits held the same triple more than once.
C7_Witness == DedupDone /\ Len(findings) < Len(hits)

\* The finding list of a unit whose source text is code, from the text alone.
FindingsOf(code) ==
    LET hs == scan_sql(code) \o scan_declarations(code)
        kept == FirstSeen(hs, Len(hs))
    IN  [i \in DOMAIN kept |-> Finding(kept[i])]

\* C8: assess returns as many records as there are units; the i-th carries the
\* i-th unit's fields unchanged and the findings of that unit's own text, an
\* absent or empty text giving none.
C8_PositionalOutput ==
    /\ pc = "done" => Len(results) = Len(units)
    /\ Len(results) <= Len(units)
    /\ \A i \in DOMAIN results :
           /\ [f \in DOMAIN units[i] |-> results[i][f]] = units[i]
           /\ results[i].selects = FindingsOf(CodeOrEmpty(units[i]))
           /\ units[i].code \in {None, Some(<<>>)} => results[i].selects = <<>>

\* C8's case: a batch whose first unit has no text and whose second has findings.
C8_Witness ==
    /\ pc = "done"
    /\ Len(units) = 2
    /\ units[1].code = None
    /\ results[1].selects = <<>>
    /\ results[2].selects # <<>>
    /\ Len(results[2].selects) < Len(scan_sql(units[2].code[1]))

\* The hits a step of scan_sql's loop appended to its results.
NewHits == SubSeq(scan_results', Len(scan_results) + 1, Len(scan_results'))

\* The text `SELECT * FROM t`.
SelectStarFrom(t) == <<"SELECT", " ", "*", " ", "FROM", " ", t>>

\* C2: for every block scan_sql finds, exactly one TABLE hit with the block's
\* span is emitted when the FROM table, upper-cased, is a catalog key, with
\* target_name the upper-cased table, used_fields = [table] and
\* suggested_fields = [catalog[table]], and none otherwise; the unit
\* `SELECT * FROM t` yields exactly one TABLE finding for each catalog table t.
C2_MainTableHit ==
    /\ [][ (pc = "scan_sql" /\ pc' = "scan_sql") =>
             LET stmt == SQL_SELECT_BLOCK_RE(src, pos)
                 IsMain(h) == h.target_type = "TABLE" /\ h.span = stmt.span
                 mains == SelectSeq(NewHits, IsMain)
                 table == upper(stmt.table)
             IN  IF table \in DOMAIN SQL_TABLES
                 THEN /\ Len(mains) = 1
                      /\ mains[1].target_name = table
                      /\ mains[1].used_fields = <<table>>
                      /\ mains[1].suggested_fields = Some(<<SQL_TABLES[table]>>)
                      /\ mains[1].span = <<Off(src, stmt.from), Off(src, stmt.to)>>
                 ELSE mains = <<>> ]_vars
    /\ [](\A t \in DOMAIN SQL_TABLES :
            (pc = "done" /\ Len(units) = 1 /\ units[1].code = Some(SelectStarFrom(t))) =>
                LET fs == results[1].selects
                IN  /\ Len(fs) = 1
                    /\ fs[1].target_type = "TABLE"
                    /\ fs[1].target_name = t
                    /\ fs[1].suggested_fields = Some(<<SQL_TABLES[t]>>))

\* C2's case: the block `select * from vbup` has been scanned and its main
\* table hit is in scan_sql's results.
C2_Witness ==
    /\ pc = "scan_sql"
    /\ pos > 0
    /\ \E b \in SrcBlocks :
           /\ b.table = <<"vbup">>
           /\ \E i \in DOMAIN scan_results :
                  /\ scan_results[i].target_type = "TABLE"
                  /\ scan_results[i].target_name = "VBUP"
                  /\ scan_results[i].span = b.span

\* The occurrences of the SQL field token in the tokens from + 1 .. to of the unit.
FieldOccurrences(from, to) ==
    {i \in (from + 1)..to : KeywordAt(src, i, "VBTYP_EXT")}

\* C4: for every block scan_sql finds, the number of SQL_FIELD hits emitted is
\* 1 if the token VBTYP_EXT occurs in the block and 0 otherwise, however often
\* it occurs; the hit spans the block, has field = VBTYP_EXT,
\* used_fields = [VBTYP_EXT] and no suggested replacement.
C4_OneSqlFieldHitPerBlock ==
    [][ (pc = "scan_sql" /\ pc' = "scan_sql") =>
          LET stmt == SQL_SELECT_BLOCK_RE(src, pos)
              IsField(h) == h.target_type = "SQL_FIELD"
              fhits == SelectSeq(NewHits, IsField)
          IN  IF FieldOccurrences(stmt.from, stmt.to) # {}
              THEN /\ Len(fhits) = 1
                   /\ fhits[1].span = stmt.span
                   /\ fhits[1].target_name = "VBTYP_EXT"
                   /\ fhits[1].field = Some("VBTYP_EXT")
                   /\ fhits[1].used_fields = <<"VBTYP_EXT">>
                   /\ fhits[1].suggested_fields = None
              ELSE fhits = <<>> ]_vars

\* C4's case: a unit of one block that holds the token three times has been
\* scanned, and one SQL_FIELD hit is in scan_sql's results.
C4_Witness ==
    /\ pc = "scan_sql"
    /\ pos = Len(src)
    /\ Cardinality(SrcBlocks) = 1
    /\ \A b \in SrcBlocks : Cardinality(FieldOccurrences(b.from, b.to)) = 3
    /\ Cardinality({i \in DOMAIN scan_results :
                       scan_results[i].target_type = "SQL_FIELD"}) = 1

\* scan_declarations' loop has run to its end: scan_results is what it returns.
DeclScanDone == pc = "scan_declarations" /\ DeclStarts(src, pos) = {}

\* What C5 says of the occurrence m of `TYPE <id>` or `LIKE <id>`.
DeclarationClaim(m) ==
    LET id == upper(m.id)
        hs == {i \in DOMAIN scan_results :
                  /\ scan_results[i].target_type = "DECLARATION"
                  /\ scan_results[i].span = m.span}
    IN  /\ hs # {} <=> (id \in DOMAIN DECL_FIELDS \/ id \in DECL_FIELDS_OBS)
        /\ \A i \in hs :
               LET h == scan_results[i]
               IN  /\ h.target_name = id
                   /\ h.suggested_statement # ""
                   /\ id \in DOMAIN DECL_FIELDS =>
                          /\ h.suggested_fields = Some(<<DECL_FIELDS[id]>>)
                          /\ h.suggested_statement =
                                 "* TODO: Data element " \o id
                                     \o " was lengthened (Note 2198647). Use "
                                     \o DECL_FIELDS[id] \o "."
                   /\ id \in DECL_FIELDS_OBS =>
                          /\ h.suggested_fields = None
                          /\ h.suggested_statement =
                                 "* TODO: Field " \o id
                                     \o " obsolete (Note 2198647). Remove usage."

\* C5: every occurrence of `TYPE <id>` or `LIKE <id>` in the unit's text has a
\* DECLARATION hit iff its identifier, upper-cased, is renamed or removed; a
\* renamed one carries the replacement and the 'lengthened ... Use' comment, a
\* removed one no replacement and the 'Remove usage' comment, and the comment
\* is never empty.
C5_EveryOccurrence ==
    DeclScanDone =>
        \A i \in DeclStarts(src, 0) : DeclarationClaim(KeywordIdMatch(src, i))

\* What the scan does give in C5's place: the same of every occurrence the
\* left-to-right scan matches, which leaves out an occurrence whose TYPE or
\* LIKE keyword is itself the identifier of the match before it.
C5_EveryScannedMatch ==
    DeclScanDone =>
        LET ms == DeclMatches(src, 0)
        IN  \A k \in DOMAIN ms : DeclarationClaim(ms[k])

IsSqlFinding(f) == f.target_type \in {"TABLE", "SQL_FIELD"}

\* The SQL findings precede the DECLARATION findings.
SqlBeforeDeclarations ==
    \A i, k \in DOMAIN findings :
        (i < k /\ ~IsSqlFinding(findings[i])) => ~IsSqlFinding(findings[k])

\* C6 as claimed: SQL findings precede DECLARATION findings, and within each
\* of the two groups the start offsets are non-decreasing along the list.
C6_StartsNonDecreasing ==
    /\ SqlBeforeDeclarations
    /\ \A i, k \in DOMAIN findings :
           (i < k /\ IsSqlFinding(findings[i]) = IsSqlFinding(findings[k])) =>
               findings[i].start_char_in_unit <= findings[k].start_char_in_unit

\* f carries the span of a whole block: a main-table or an SQL_FIELD finding.
IsBlockFinding(f) == f.target_type = "SQL_FIELD" \/ IsMainFinding(f)

\* C6 as amended, of the finding list as the loop of line 119 builds it: SQL
\* findings precede DECLARATION findings; the DECLARATION findings have
\* increasing start offsets; of the SQL findings, those of whole blocks (main
\* table, SQL_FIELD) have non-decreasing start offsets, while a JOIN-derived
\* finding stands between its block's two and is not in offset order.
C6_ScanOrder ==
    pc = "for_hit" =>
        /\ SqlBeforeDeclarations
        /\ \A i, k \in {j \in DOMAIN findings : ~IsSqlFinding(findings[j])} :
               i < k =>
                   findings[i].start_char_in_unit < findings[k].start_char_in_unit
        /\ \A i, k \in {j \in DOMAIN findings : IsBlockFinding(findings[j])} :
               i < k =>
                   findings[i].start_char_in_unit <= findings[k].start_char_in_unit

\* C6's case: a finished finding list with a main-table finding, a JOIN-derived
\* finding after it, the block's SQL_FIELD finding and a DECLARATION finding.
C6_Witness ==
    /\ DedupDone
    /\ \E i, j, k, l \in DOMAIN findings :
           /\ i < j /\ j < k /\ k < l
           /\ IsMainFinding(findings[i])
           /\ findings[j].target_type = "TABLE" /\ ~IsMainFinding(findings[j])
           /\ findings[k].target_type = "SQL_FIELD"
           /\ findings[l].target_type = "DECLARATION"

====
